---- MODULE Spec2Model ----
(***************************************************************************)
(* A model of migrator.py, the Jinja template migrator: the JinjaMigrator  *)
(* object (its configuration, discovered sets, mapping tables and          *)
(* migration log), the phases of main, and the text functions the          *)
(* rewrite is built from.  Text is modelled as TLA+ strings, handled       *)
(* character by character with Len, SubSeq and \o.                         *)
(***************************************************************************)
EXTENDS Integers, Sequences, FiniteSets, TLC

VARIABLES
  pc,                   \* position of main (or of the function under check)
  config,               \* self.config, the MigrationConfig
  options,              \* the command line options of main
  fs,                   \* the source directory: path -> file
  templates_to_migrate, \* the batch, in order
  idx,                  \* index of the loop that is running
  discovered_variables, \* self.discovered_variables
  discovered_blocks,    \* self.discovered_blocks
  template_mappings,    \* self.template_mappings (insertion-ordered dict)
  variable_mappings,    \* self.variable_mappings (insertion-ordered dict)
  block_mappings,       \* self.block_mappings (insertion-ordered dict)
  migration_log,        \* self.migration_log
  target_files,         \* files under target_dir: relative path -> content
  successful,           \* main's counter
  failed,               \* main's counter
  outcome,              \* what migrate_template echoed for each batch index
  operator,             \* what the operator typed at the prompts so far
  arg,                  \* argument of the function under check
  ret                   \* its return value

vars == <<pc, config, options, fs, templates_to_migrate, idx, discovered_variables,
          discovered_blocks, template_mappings, variable_mappings,
          block_mappings, migration_log, target_files, successful, failed,
          outcome, operator, arg, ret>>

----------------------------------------------------------------------------
(* Strings *)

Char(s, i) == SubSeq(s, i, i)

Slice(s, i, j) == IF j < i THEN "" ELSE SubSeq(s, i, j)

\* s[i:i+len(lit)] == lit
LitAt(s, i, lit) ==
  /\ i >= 1
  /\ i + Len(lit) - 1 <= Len(s)
  /\ SubSeq(s, i, i + Len(lit) - 1) = lit

\* lit in s
Contains(s, lit) == \E i \in 1..Len(s) : LitAt(s, i, lit)

UpperChars == "ABCDEFGHIJKLMNOPQRSTUVWXYZ"
LowerChars == "abcdefghijklmnopqrstuvwxyz"
DigitChars == "0123456789"

InChars(c, chars) == \E i \in 1..Len(chars) : Char(chars, i) = c

\* \w of the re module
IsWordChar(c) ==
  InChars(c, UpperChars) \/ InChars(c, LowerChars) \/ InChars(c, DigitChars) \/ c = "_"

\* \s of the re module
IsSpaceChar(c) == c = " " \/ c = "\n" \/ c = "\t"

LowerChar(c) ==
  IF InChars(c, UpperChars)
    THEN Char(LowerChars, CHOOSE i \in 1..Len(UpperChars) : Char(UpperChars, i) = c)
    ELSE c

RECURSIVE StrLower(_)
StrLower(s) ==
  IF Len(s) <= 1 THEN LowerChar(s)
  ELSE StrLower(Slice(s, 1, Len(s) \div 2)) \o StrLower(Slice(s, Len(s) \div 2 + 1, Len(s)))

\* s.rfind(c): the last index of character c in s, 0 when absent
RFind(s, c) ==
  IF \E i \in 1..Len(s) : Char(s, i) = c
    THEN CHOOSE i \in 1..Len(s) :
           /\ Char(s, i) = c
           /\ \A j \in (i + 1)..Len(s) : Char(s, j) # c
    ELSE 0

RECURSIVE JoinWith(_, _)
JoinWith(sep, strs) ==
  IF strs = <<>> THEN ""
  ELSE IF Len(strs) = 1 THEN strs[1]
  ELSE strs[1] \o sep \o JoinWith(sep, Tail(strs))

RECURSIVE Concat(_)
Concat(strs) == IF strs = <<>> THEN "" ELSE Head(strs) \o Concat(Tail(strs))

\* the elements of a sequence
SeqRange(q) == {q[k] : k \in 1..Len(q)}

\* all sequences over S of length lo..hi
SeqsOfLen(S, lo, hi) == UNION {[1..n -> S] : n \in lo..hi}

\* the characters of names and paths, in code order
AsciiChars ==
  " -./0123456789ABCDEFGHIJKLMNOPQRSTUVWXYZ_abcdefghijklmnopqrstuvwxyz"

CharCode(c) == CHOOSE i \in 1..Len(AsciiChars) : Char(AsciiChars, i) = c

\* a < b for Python strings
RECURSIVE StrLess(_, _)
StrLess(a, b) ==
  IF b = "" THEN FALSE
  ELSE IF a = "" THEN TRUE
  ELSE IF Head(a) = Head(b) THEN StrLess(Tail(a), Tail(b))
  ELSE CharCode(Head(a)) < CharCode(Head(b))

\* sorted(S) of a set of strings
RECURSIVE Sorted(_)
Sorted(S) ==
  IF S = {} THEN <<>>
  ELSE LET least == CHOOSE x \in S : \A y \in S \ {x} : StrLess(x, y)
       IN <<least>> \o Sorted(S \ {least})

\* s.endswith(lit)
EndsWith(s, lit) == LitAt(s, Len(s) - Len(lit) + 1, lit)

----------------------------------------------------------------------------
(* Insertion-ordered dicts: sequences of <<key, value>> with unique keys *)

DictKeys(d) == {d[i][1] : i \in 1..Len(d)}

DictHas(d, k) == k \in DictKeys(d)

DictAt(d, k) == d[CHOOSE i \in 1..Len(d) : d[i][1] = k][2]

\* d.get(k, default)
DictGet(d, k, default) == IF DictHas(d, k) THEN DictAt(d, k) ELSE default

\* d[k] = v: an existing key keeps its place, a new key is appended
DictSet(d, k, v) ==
  IF DictHas(d, k)
    THEN [i \in 1..Len(d) |-> IF d[i][1] = k THEN <<k, v>> ELSE d[i]]
    ELSE Append(d, <<k, v>>)

----------------------------------------------------------------------------
(* pathlib.Path of a relative POSIX path *)

\* len(path.parts) == 1
HasSinglePart(template_path) == ~Contains(template_path, "/")

\* path.name
PathName(template_path) ==
  Slice(template_path, RFind(template_path, "/") + 1, Len(template_path))

\* path.stem: the name without its last suffix
PathStem(template_path) ==
  LET name == PathName(template_path)
      i == RFind(name, ".")
  IN IF 1 < i /\ i < Len(name) THEN Slice(name, 1, i - 1) ELSE name

\* A plausible slip: the "user" rule tested before the "admin" rule.
SuggestTemplatePathUserFirst(template_path) ==
  IF HasSinglePart(template_path) /\ PathStem(template_path) # "base"
    THEN "pages/" \o template_path
  ELSE IF Contains(StrLower(template_path), "user")
    THEN "user/" \o PathName(template_path)
  ELSE IF Contains(StrLower(template_path), "admin")
    THEN "admin/" \o PathName(template_path)
  ELSE template_path

\* JinjaMigrator._suggest_template_path
SuggestTemplatePath(template_path) ==
  IF HasSinglePart(template_path) /\ PathStem(template_path) # "base"
    THEN "pages/" \o template_path
  ELSE IF Contains(StrLower(template_path), "admin")
    THEN "admin/" \o PathName(template_path)
  ELSE IF Contains(StrLower(template_path), "user")
    THEN "user/" \o PathName(template_path)
  ELSE template_path

----------------------------------------------------------------------------
(* re.sub over the three patterns of _apply_variable_mappings *)

\* \b at the gap before index i (between s[i-1] and s[i])
WordBoundary(s, i) ==
  LET before == i > 1 /\ i - 1 <= Len(s) /\ IsWordChar(Char(s, i - 1))
      after == i >= 1 /\ i <= Len(s) /\ IsWordChar(Char(s, i))
  IN before # after

\* the first index >= i whose character is not white space (Len(s)+1 at the end)
RECURSIVE SkipSpace(_, _)
SkipSpace(s, i) ==
  IF i <= Len(s) /\ IsSpaceChar(Char(s, i)) THEN SkipSpace(s, i + 1) ELSE i

\* \bold\b matched at index i: the index after the match, 0 when no match
MatchSimpleAt(s, i, old) ==
  IF /\ LitAt(s, i, old)
     /\ WordBoundary(s, i)
     /\ WordBoundary(s, i + Len(old))
    THEN i + Len(old)
    ELSE 0

\* {\s*old\s*} matched at index i: the index after the match, 0 when no match
MatchBracedAt(s, i, old) ==
  IF ~LitAt(s, i, "{") THEN 0
  ELSE LET j == SkipSpace(s, i + 1)
       IN IF ~LitAt(s, j, old) THEN 0
          ELSE LET k == SkipSpace(s, j + Len(old))
               IN IF LitAt(s, k, "}") THEN k + 1 ELSE 0

\* {% [^%]*\bold\b[^%]*%} matched at index i: the index after the match, 0 when
\* no match.  [^%]* cannot cross a "%", so the match ends at the first "%" after
\* the opening "{% ", which must start "%}", and old must lie before it.
MatchControlAt(s, i, old) ==
  IF ~LitAt(s, i, "{% ") THEN 0
  ELSE IF ~(\E p \in (i + 3)..Len(s) : Char(s, p) = "%") THEN 0
  ELSE LET p == CHOOSE q \in (i + 3)..Len(s) :
                  /\ Char(s, q) = "%"
                  /\ \A r \in (i + 3)..(q - 1) : Char(s, r) # "%"
       IN IF /\ LitAt(s, p, "%}")
             /\ \E j \in (i + 3)..(p - Len(old)) : MatchSimpleAt(s, j, old) # 0
            THEN p + 2
            ELSE 0

\* the match of pattern number pat (1, 2, 3 in the order of the patterns list)
MatchPatternAt(pat, s, i, old) ==
  CASE pat = 1 -> MatchSimpleAt(s, i, old)
    [] pat = 2 -> MatchBracedAt(s, i, old)
    [] pat = 3 -> MatchControlAt(s, i, old)

\* re.sub(pattern, new_var, content) from index i on: leftmost matches, not
\* overlapping, each replaced by new_var
RECURSIVE ReSubFrom(_, _, _, _, _)
ReSubFrom(pat, s, i, old, new) ==
  IF ~(\E j \in i..Len(s) : MatchPatternAt(pat, s, j, old) # 0)
    THEN Slice(s, i, Len(s))
    ELSE LET j == CHOOSE x \in i..Len(s) :
                    /\ MatchPatternAt(pat, s, x, old) # 0
                    /\ \A y \in i..(x - 1) : MatchPatternAt(pat, s, y, old) = 0
         IN Slice(s, i, j - 1) \o new
              \o ReSubFrom(pat, s, MatchPatternAt(pat, s, j, old), old, new)

ReSub(pat, old, new, content) == ReSubFrom(pat, content, 1, old, new)

\* the inner loop: the three patterns of one (old_var, new_var) in order
ApplyOneMapping(content, old, new) ==
  ReSub(3, old, new, ReSub(2, old, new, ReSub(1, old, new, content)))

\* JinjaMigrator._apply_variable_mappings, over the dict's items in order
RECURSIVE ApplyVariableMappingsTo(_, _)
ApplyVariableMappingsTo(content, mappings) ==
  IF mappings = <<>> THEN content
  ELSE ApplyVariableMappingsTo(
         ApplyOneMapping(content, Head(mappings)[1], Head(mappings)[2]),
         Tail(mappings))

ApplyVariableMappings(content) ==
  ApplyVariableMappingsTo(content, variable_mappings)

----------------------------------------------------------------------------
(* source_env.get_template / source_env.parse: the block structure, the    *)
(* extends directive and the variables of a template source, as Jinja's    *)
(* lexer and parser report them                                            *)

ParseError == "TemplateSyntaxError"

\* the index of the first lit at or after i, 0 when there is none
FindFrom(s, i, lit) ==
  IF \E p \in i..Len(s) : LitAt(s, p, lit)
    THEN CHOOSE p \in i..Len(s) :
           LitAt(s, p, lit) /\ \A q \in i..(p - 1) : ~LitAt(s, q, lit)
    ELSE 0

RECURSIVE StrLStrip(_)
StrLStrip(s) ==
  IF s # "" /\ IsSpaceChar(Head(s)) THEN StrLStrip(Tail(s)) ELSE s

RECURSIVE StrRStrip(_)
StrRStrip(s) ==
  IF s # "" /\ IsSpaceChar(Char(s, Len(s)))
    THEN StrRStrip(Slice(s, 1, Len(s) - 1))
    ELSE s

\* str.strip()
StrStrip(s) == StrRStrip(StrLStrip(s))

\* str.split(): the maximal runs without white space
RECURSIVE StrSplit(_)
StrSplit(s) ==
  LET t == StrLStrip(s)
  IN IF t = "" THEN <<>>
     ELSE LET stops == {i \in 1..Len(t) : IsSpaceChar(Char(t, i))}
              e == IF stops = {} THEN Len(t) + 1
                   ELSE CHOOSE i \in stops : \A j \in stops : i <= j
          IN <<Slice(t, 1, e - 1)>> \o StrSplit(Slice(t, e, Len(t)))

\* the text between "{%" and "%}" without the white space control signs
StatementWords(inner) ==
  LET a == IF inner # "" /\ Head(inner) \in {"-", "+"} THEN Tail(inner) ELSE inner
      b == IF a # "" /\ Char(a, Len(a)) = "-" THEN Slice(a, 1, Len(a) - 1) ELSE a
  IN StrSplit(b)

\* the value of a string literal
Unquote(w) ==
  IF Len(w) >= 2 /\ Head(w) \in {"'", "\""} /\ Char(w, Len(w)) = Head(w)
    THEN Slice(w, 2, Len(w) - 1)
    ELSE w

\* one statement as the parser classifies it
ParseStatement(inner) ==
  LET w == StatementWords(inner)
  IN IF w = <<>> THEN [kind |-> "error", name |-> ""]
     ELSE IF w[1] = "block" /\ (Len(w) = 2 \/ (Len(w) = 3 /\ w[3] \in {"scoped", "required"}))
       THEN [kind |-> "block", name |-> w[2]]
     ELSE IF w[1] = "endblock" /\ Len(w) = 1 THEN [kind |-> "endblock", name |-> ""]
     ELSE IF w[1] = "endblock" /\ Len(w) = 2 THEN [kind |-> "endblock", name |-> w[2]]
     ELSE IF w[1] \in {"extends", "include"} /\ Len(w) = 2
       THEN [kind |-> w[1], name |-> Unquote(w[2])]
     ELSE [kind |-> "error", name |-> ""]

\* the statements of a source in order; an unclosed "{%" is an error statement
RECURSIVE LexStatements(_, _)
LexStatements(s, i) ==
  LET b == FindFrom(s, i, "{%")
  IN IF b = 0 THEN <<>>
     ELSE LET e == FindFrom(s, b + 2, "%}")
          IN IF e = 0 THEN <<[kind |-> "error", name |-> ""]>>
             ELSE <<ParseStatement(Slice(s, b + 2, e - 1))>> \o LexStatements(s, e + 2)

\* the parser's walk: blocks nest, a named endblock names the open block, no
\* block name is defined twice.  Returns the block names in document order, or
\* ParseError.
RECURSIVE ParseBlocks(_, _, _)
ParseBlocks(stmts, stack, names) ==
  IF stmts = <<>> THEN (IF stack = <<>> THEN names ELSE ParseError)
  ELSE LET st == Head(stmts)
       IN CASE st.kind = "error" -> ParseError
            [] st.kind = "extends" ->
                 \* the compiler refuses extends below the top level
                 IF stack # <<>> THEN ParseError
                 ELSE ParseBlocks(Tail(stmts), stack, names)
            [] st.kind = "include" -> ParseBlocks(Tail(stmts), stack, names)
            [] st.kind = "block" ->
                 IF \E k \in 1..Len(names) : names[k] = st.name THEN ParseError
                 ELSE ParseBlocks(Tail(stmts), <<st.name>> \o stack, Append(names, st.name))
            [] st.kind = "endblock" ->
                 IF stack = <<>> THEN ParseError
                 ELSE IF st.name # "" /\ st.name # Head(stack) THEN ParseError
                 ELSE ParseBlocks(Tail(stmts), Tail(stack), names)

\* [node.name for node in ast.find_all('Block')], or ParseError
JinjaBlocks(source) == ParseBlocks(LexStatements(source, 1), <<>>, <<>>)

\* the template names of the Extends (or Include) nodes, in order
JinjaReferences(source, kind) ==
  LET found == SelectSeq(LexStatements(source, 1), LAMBDA st : st.kind = kind)
  IN [k \in 1..Len(found) |-> found[k].name]

\* the leading identifier of an expression
LeadingWord(expr) ==
  LET stops == {i \in 1..Len(expr) : ~IsWordChar(Char(expr, i))}
      e == IF stops = {} THEN Len(expr) + 1
           ELSE CHOOSE i \in stops : \A j \in stops : i <= j
  IN Slice(expr, 1, e - 1)

\* meta.find_undeclared_variables: the names the "{{ ... }}" expressions read
RECURSIVE JinjaVariables(_, _)
JinjaVariables(s, i) ==
  LET b == FindFrom(s, i, "{{")
  IN IF b = 0 THEN {}
     ELSE LET e == FindFrom(s, b + 2, "}}")
          IN IF e = 0 THEN {}
             ELSE {LeadingWord(StrStrip(Slice(s, b + 2, e - 1)))} \cup JinjaVariables(s, e + 2)

----------------------------------------------------------------------------
(* _extract_blocks_content: the regular expression                         *)
(*   {%\s*block\s+(\w+)\s*%}(.*?){%\s*endblock\s*(?:\s+\1)?\s*%}           *)
(* with re.DOTALL, over the raw source                                     *)

\* the first index >= i whose character is not a word character
RECURSIVE SkipWord(_, _)
SkipWord(s, i) ==
  IF i <= Len(s) /\ IsWordChar(Char(s, i)) THEN SkipWord(s, i + 1) ELSE i

NoMatch == [end |-> 0, name |-> ""]

\* {%\s*block\s+(\w+)\s*%} at index i: the index after it and group 1
MatchBlockOpenAt(s, i) ==
  IF ~LitAt(s, i, "{%") THEN NoMatch
  ELSE LET a == SkipSpace(s, i + 2)
       IN IF ~LitAt(s, a, "block") THEN NoMatch
          ELSE LET b == SkipSpace(s, a + 5)
                   c == SkipWord(s, b)
                   d == SkipSpace(s, c)
               IN IF b > a + 5 /\ c > b /\ LitAt(s, d, "%}")
                    THEN [end |-> d + 2, name |-> Slice(s, b, c - 1)]
                    ELSE NoMatch

\* {%\s*endblock\s*(?:\s+\1)?\s*%} at index i: the index after it, 0 when no match
MatchEndBlockAt(s, i, name) ==
  IF ~LitAt(s, i, "{%") THEN 0
  ELSE LET a == SkipSpace(s, i + 2)
       IN IF ~LitAt(s, a, "endblock") THEN 0
          ELSE LET b == SkipSpace(s, a + 8)
               IN IF LitAt(s, b, "%}") THEN b + 2
                  ELSE IF b > a + 8 /\ LitAt(s, b, name) /\ LitAt(s, SkipSpace(s, b + Len(name)), "%}")
                    THEN SkipSpace(s, b + Len(name)) + 2
                  ELSE 0

\* the whole pattern at index i: (.*?) stops at the first endblock that matches
MatchBlockAt(s, i) ==
  LET open == MatchBlockOpenAt(s, i)
  IN IF open.end = 0 THEN [end |-> 0, name |-> "", content |-> ""]
     ELSE LET closes == {k \in open.end..Len(s) : MatchEndBlockAt(s, k, open.name) # 0}
          IN IF closes = {} THEN [end |-> 0, name |-> "", content |-> ""]
             ELSE LET k == CHOOSE x \in closes : \A y \in closes : x <= y
                  IN [end |-> MatchEndBlockAt(s, k, open.name),
                      name |-> open.name,
                      content |-> Slice(s, open.end, k - 1)]

\* re.finditer and the loop body: blocks[group(1)] = group(2).strip()
RECURSIVE ExtractBlocksFrom(_, _, _)
ExtractBlocksFrom(s, i, blocks) ==
  IF ~(\E j \in i..Len(s) : MatchBlockAt(s, j).end # 0) THEN blocks
  ELSE LET m == MatchBlockAt(s, CHOOSE x \in i..Len(s) :
                                  /\ MatchBlockAt(s, x).end # 0
                                  /\ \A y \in i..(x - 1) : MatchBlockAt(s, y).end = 0)
       IN ExtractBlocksFrom(s, m.end, DictSet(blocks, m.name, StrStrip(m.content)))

\* JinjaMigrator._extract_blocks_content
ExtractBlocksContent(source) == ExtractBlocksFrom(source, 1, <<>>)

----------------------------------------------------------------------------
(* _generate_new_template *)

\* str(dict) of a dict of strings
DictRepr(d) ==
  "{" \o JoinWith(", ", [i \in 1..Len(d) |-> "'" \o d[i][1] \o "': '" \o d[i][2] \o "'"]) \o "}"

\* the four lines emitted for each extracted block
RECURSIVE BlockLines(_)
BlockLines(original_blocks) ==
  IF original_blocks = <<>> THEN <<>>
  ELSE LET block_name == Head(original_blocks)[1]
           block_content == Head(original_blocks)[2]
           new_block_name == DictGet(block_mappings, block_name, block_name)
       IN << "{% block " \o new_block_name \o " %}",
             ApplyVariableMappings(block_content),
             "{% endblock %}",
             "" >> \o BlockLines(Tail(original_blocks))

\* JinjaMigrator._generate_new_template
GenerateNewTemplate(template_info, template_path) ==
  JoinWith("\n",
    (IF config.new_base_template # ""
       THEN << "{% extends '" \o config.new_base_template \o "' %}", "" >>
       ELSE <<>>)
    \o BlockLines(ExtractBlocksContent(template_info.source))
    \o << "<!-- Migrated template -->",
          "<!-- Original: " \o template_path \o " -->",
          "<!-- Variables: " \o JoinWith(", ", template_info.variables) \o " -->" >>
    \o (IF variable_mappings # <<>>
          THEN << "<!-- Variable mappings: " \o DictRepr(variable_mappings) \o " -->" >>
          ELSE <<>>))

----------------------------------------------------------------------------
(* The state a JinjaMigrator has after __init__, and the defaults of       *)
(* _load_config and of the command line                                    *)

DefaultConfig ==
  [new_base_template |-> "base.html",
   exclude_patterns |-> <<>>,
   auto_preserve_blocks |-> TRUE,
   auto_map_variables |-> FALSE]

DefaultOptions == [auto |-> FALSE, dry_run |-> FALSE, template |-> <<>>]

\* JinjaMigrator.__init__: empty log, empty mappings, empty discovered sets
FreshMigrator ==
  /\ migration_log = <<>>
  /\ template_mappings = <<>>
  /\ variable_mappings = <<>>
  /\ block_mappings = <<>>
  /\ discovered_variables = {}
  /\ discovered_blocks = {}

\* nothing of main has run
MainNotStarted ==
  /\ options = DefaultOptions
  /\ fs = <<>>
  /\ templates_to_migrate = <<>>
  /\ idx = 0
  /\ target_files = <<>>
  /\ successful = 0
  /\ failed = 0
  /\ outcome = <<>>
  /\ operator = [variables |-> <<>>, blocks |-> <<>>]

----------------------------------------------------------------------------
(* _suggest_template_path on its own: every path of up to MaxDirs          *)
(* directories over PathDirs and a file name of PathFiles                  *)

MaxDirs == 2

PathDirs == {"admin", "Admin", "users", "site"}

PathFiles ==
  {"dashboard.html", "settings.html", "profile_user.html", "base.html",
   "base", "USER_LIST.html", "index.html"}

PathInputs ==
  {JoinWith("/", dirs \o <<file>>) :
     dirs \in SeqsOfLen(PathDirs, 0, MaxDirs), file \in PathFiles}

InitPath ==
  /\ pc = "suggest_call"
  /\ arg \in PathInputs
  /\ ret = ""
  /\ config = DefaultConfig
  /\ FreshMigrator
  /\ MainNotStarted

SuggestCall ==
  /\ pc = "suggest_call"
  /\ ret' = SuggestTemplatePath(arg)
  /\ pc' = "suggest_done"
  /\ UNCHANGED <<config, options, fs, templates_to_migrate, idx,
                 discovered_variables, discovered_blocks, template_mappings,
                 variable_mappings, block_mappings, migration_log, target_files,
                 successful, failed, outcome, operator, arg>>

NextPath == SuggestCall

SpecPath == InitPath /\ [][NextPath]_vars

\* the three conditions _suggest_template_path tests, as the rules name them
IsRootNotBase(p) == ~Contains(p, "/") /\ PathStem(p) # "base"
MentionsAdmin(p) == Contains(StrLower(p), "admin")
MentionsUser(p) == Contains(StrLower(p), "user")

\* the rule order of C3, without its examples
C3_Rules ==
  pc = "suggest_done" =>
    /\ IsRootNotBase(arg) => ret = "pages/" \o arg
    /\ (~IsRootNotBase(arg) /\ MentionsAdmin(arg)) => ret = "admin/" \o PathName(arg)
    /\ (~IsRootNotBase(arg) /\ ~MentionsAdmin(arg) /\ MentionsUser(arg))
         => ret = "user/" \o PathName(arg)
    /\ (~IsRootNotBase(arg) /\ ~MentionsAdmin(arg) /\ ~MentionsUser(arg)) => ret = arg

\* C3 as stated: the first matching rule decides, in the order root (no
\* directory, stem not "base") / admin / user / unchanged, and the three examples
\* hold, "profile_user.html" going to "user/profile_user.html".
C3_Original ==
  /\ C3_Rules
  /\ (pc = "suggest_done" /\ arg = "dashboard.html") => ret = "pages/dashboard.html"
  /\ (pc = "suggest_done" /\ arg = "admin/settings.html") => ret = "admin/settings.html"
  /\ (pc = "suggest_done" /\ arg = "profile_user.html") => ret = "user/profile_user.html"

\* C3 (amended): the first matching rule decides, in the order root / admin /
\* user / unchanged; "dashboard.html" goes to "pages/dashboard.html",
\* "admin/settings.html" stays, and "profile_user.html", which has no directory
\* and is not base, is decided by the root rule: "pages/profile_user.html".
C3_FirstMatchingRuleWins ==
  /\ C3_Rules
  /\ (pc = "suggest_done" /\ arg = "dashboard.html") => ret = "pages/dashboard.html"
  /\ (pc = "suggest_done" /\ arg = "admin/settings.html") => ret = "admin/settings.html"
  /\ (pc = "suggest_done" /\ arg = "profile_user.html") => ret = "pages/profile_user.html"

\* a root path that also mentions "user" has been decided by the root rule
C3_Witness ==
  /\ pc = "suggest_done"
  /\ arg = "profile_user.html"
  /\ MentionsUser(arg)
  /\ ret = "pages/profile_user.html"

----------------------------------------------------------------------------
(* _apply_variable_mappings on its own: contents of up to MaxPieces pieces *)
(* of SubstPieces, under the tables of SubstTables.  No new name of a      *)
(* table is a key of it: what two colliding pairs should do is left open   *)
(* by the design, so the tables checked here have no such pair.            *)

MaxPieces == 3

SubstPieces ==
  {"{{ ", " }}", "{% if ", " %}", "user", "user_name", "role", "_full", ".id",
   "Hello {{ user_name }}, role: {{ role }}"}

SubstInputs == {Concat(pieces) : pieces \in SeqsOfLen(SubstPieces, 0, MaxPieces)}

SubstTables ==
  { <<>>,
    << <<"user_name", "username">> >>,
    << <<"user", "account.user">> >>,
    << <<"user_name", "username">>, <<"role", "user_role">> >> }

InitSubst ==
  /\ pc = "apply_call"
  /\ arg \in SubstInputs
  /\ ret = ""
  /\ config = DefaultConfig
  /\ migration_log = <<>>
  /\ template_mappings = <<>>
  /\ variable_mappings \in SubstTables
  /\ block_mappings = <<>>
  /\ discovered_variables = {}
  /\ discovered_blocks = {}
  /\ MainNotStarted

ApplyCall ==
  /\ pc = "apply_call"
  /\ ret' = ApplyVariableMappings(arg)
  /\ pc' = "apply_done"
  /\ UNCHANGED <<config, options, fs, templates_to_migrate, idx,
                 discovered_variables, discovered_blocks, template_mappings,
                 variable_mappings, block_mappings, migration_log, target_files,
                 successful, failed, outcome, operator, arg>>

NextSubst == ApplyCall

SpecSubst == InitSubst /\ [][NextSubst]_vars

\* content with every maximal run of word characters that is a key of the
\* table replaced by the key's value, and every other character kept
RECURSIVE RenameTokens(_, _, _)
RenameTokens(s, i, table) ==
  IF i > Len(s) THEN ""
  ELSE IF IsWordChar(Char(s, i))
    THEN LET e == SkipWord(s, i)
             w == Slice(s, i, e - 1)
         IN DictGet(table, w, w) \o RenameTokens(s, e, table)
    ELSE LET e == IF ~(\E j \in i..Len(s) : IsWordChar(Char(s, j))) THEN Len(s) + 1
                  ELSE CHOOSE x \in i..Len(s) :
                         /\ IsWordChar(Char(s, x))
                         /\ \A y \in i..(x - 1) : ~IsWordChar(Char(s, y))
         IN Slice(s, i, e - 1) \o RenameTokens(s, e, table)

\* C4: _apply_variable_mappings changes only the tokens that are exactly a
\* mapped old name, each into its new name; unmapped references, longer
\* identifiers and the markup around a mapped name come out unchanged.
C4_OnlyMappedTokensChange ==
  pc = "apply_done" => ret = RenameTokens(arg, 1, variable_mappings)

----------------------------------------------------------------------------
(* _extract_template_info of a source the loader has read *)

\* the orders list(a_set) can produce
Orderings(S) ==
  {q \in [1..Cardinality(S) -> S] : \A a, b \in 1..Cardinality(S) : q[a] = q[b] => a = b}

\* the dict returned for a source the parser accepts, its variables in the
\* order given
TemplateInfo(source, variables) ==
  [variables |-> variables,
   blocks |-> JinjaBlocks(source),
   extends |-> JinjaReferences(source, "extends"),
   includes |-> JinjaReferences(source, "include"),
   source |-> source]

----------------------------------------------------------------------------
(* _generate_new_template on its own: sources of up to MaxFragments        *)
(* fragments of RewriteFragments that the parser accepts, under the block  *)
(* and variable tables below, with and without a base template             *)

MaxFragments == 4

RewriteFragments ==
  {"{% extends 'old.html' %}", "{% block content %}", "{% block sidebar %}",
   "{%- block content -%}", "{% endblock %}", "{% endblock content %}",
   " text ", "{{ title }}"}

RewriteSources ==
  {src \in {Concat(fr) : fr \in SeqsOfLen(RewriteFragments, 1, MaxFragments)} :
     JinjaBlocks(src) # ParseError}

RewriteBlockTables == { <<>>, << <<"content", "main_content">> >> }

RewriteVariableTables == { <<>>, << <<"title", "heading">> >> }

InitRewrite ==
  /\ pc = "generate_call"
  /\ \E src \in RewriteSources :
       \E variables \in Orderings(JinjaVariables(src, 1)) :
         arg = [template_info |-> TemplateInfo(src, variables),
                template_path |-> "page.html"]
  /\ ret = ""
  /\ \E base \in {"", "base.html"} :
       config = [DefaultConfig EXCEPT !.new_base_template = base]
  /\ migration_log = <<>>
  /\ template_mappings = <<>>
  /\ variable_mappings \in RewriteVariableTables
  /\ block_mappings \in RewriteBlockTables
  /\ discovered_variables = {}
  /\ discovered_blocks = {}
  /\ MainNotStarted

GenerateCall ==
  /\ pc = "generate_call"
  /\ ret' = GenerateNewTemplate(arg.template_info, arg.template_path)
  /\ pc' = "generate_done"
  /\ UNCHANGED <<config, options, fs, templates_to_migrate, idx,
                 discovered_variables, discovered_blocks, template_mappings,
                 variable_mappings, block_mappings, migration_log, target_files,
                 successful, failed, outcome, operator, arg>>

NextRewrite == GenerateCall

SpecRewrite == InitRewrite /\ [][NextRewrite]_vars

\* the names of the block declarations a text holds, as the lexer finds them
DeclaredBlockNames(text) ==
  LET found == SelectSeq(LexStatements(text, 1), LAMBDA st : st.kind = "block")
  IN {found[k].name : k \in 1..Len(found)}

\* C7: the text _generate_new_template produces is well formed: its block
\* opens and closes balance, extends appears at most once and then first, and
\* no extends is emitted when new_base_template is empty.
C7_OutputWellFormed ==
  pc = "generate_done" =>
    /\ JinjaBlocks(ret) # ParseError
    /\ Len(JinjaReferences(ret, "extends")) <= 1
    /\ Len(JinjaReferences(ret, "extends")) = 1 => LitAt(ret, 1, "{% extends ")
    /\ config.new_base_template = "" => Len(JinjaReferences(ret, "extends")) = 0

\* C8: with empty mappings and an empty base template the output declares
\* exactly the blocks analysis recorded; under any block mapping every
\* declared name is an original name or the mapping of one.
C8_BlockNamesPreserved ==
  pc = "generate_done" =>
    LET original == SeqRange(arg.template_info.blocks)
        emitted == DeclaredBlockNames(ret)
    IN /\ (variable_mappings = <<>> /\ block_mappings = <<>> /\ config.new_base_template = "")
            => emitted = original
       /\ emitted \subseteq original \cup {DictGet(block_mappings, n, n) : n \in original}

----------------------------------------------------------------------------
(* The run of main.  The source directory holds some of the files of       *)
(* SourceTree; binary.html is not valid UTF-8, so the loader's read raises *)
(* UnicodeDecodeError, which is no TemplateError.  template.source is      *)
(* taken to be the text the loader read.                                   *)

MaxFiles == 3

MaxTemplateArgs == 1

SourcePaths ==
  {"dashboard.html", "admin/settings.html", "broken.html", "old_backup.html",
   "binary.html"}

SourceTree ==
  [p \in SourcePaths |->
     CASE p = "dashboard.html" ->
            [utf8 |-> TRUE, text |-> "{% block content %}Hello {{ user_name }}{% endblock %}"]
       [] p = "admin/settings.html" ->
            [utf8 |-> TRUE,
             text |-> "{% extends 'layout.html' %}{% block content %}{{ user_name }}{% endblock %}"]
       [] p = "broken.html" ->
            [utf8 |-> TRUE, text |-> "{% block content %}{{ user_name }}"]
       [] p = "old_backup.html" ->
            [utf8 |-> TRUE, text |-> "{% block legacy %}{{ secret }}{% endblock %}"]
       [] p = "binary.html" ->
            [utf8 |-> FALSE, text |-> ""]]

\* the exclusion patterns of the sample configuration, .*_backup\.html$ and
\* temp_.*\.html$, each as the literal before and the literal after its ".*"
SamplePatterns ==
  << [prefix |-> "", suffix |-> "_backup.html"],
     [prefix |-> "temp_", suffix |-> ".html"] >>

\* re.match(pattern, template_path) for a pattern PREFIX.*SUFFIX$
ReMatch(pattern, template_path) ==
  /\ Len(template_path) >= Len(pattern.prefix) + Len(pattern.suffix)
  /\ LitAt(template_path, 1, pattern.prefix)
  /\ EndsWith(template_path, pattern.suffix)

\* A plausible slip: the exclusion check left out.
ShouldExcludeNever(template_path) == FALSE

\* JinjaMigrator._should_exclude
ShouldExclude(template_path) ==
  \E k \in 1..Len(config.exclude_patterns) :
    ReMatch(config.exclude_patterns[k], template_path)

\* how _extract_template_info ends for a path: "raise" (an exception that is
\* no TemplateError leaves the method), "TemplateError" (caught on line 110,
\* {} returned) or "ok"
ExtractStatus(template_path) ==
  IF template_path \notin DOMAIN fs THEN "TemplateError"
  ELSE IF ~fs[template_path].utf8 THEN "raise"
  ELSE IF JinjaBlocks(fs[template_path].text) = ParseError THEN "TemplateError"
  ELSE "ok"

\* the dicts _extract_template_info can return for a path whose status is "ok"
ExtractTemplateInfo(template_path) ==
  {TemplateInfo(fs[template_path].text, variables) :
     variables \in Orderings(JinjaVariables(fs[template_path].text, 1))}

\* JinjaMigrator.discover_templates
DiscoverTemplates == Sorted({p \in DOMAIN fs : EndsWith(p, ".html")})

\* JinjaMigrator._auto_map_variables: the built-in table, in its order
AutoMappings ==
  << <<"user_name", "username">>, <<"user_email", "email">>,
     <<"page_title", "title">>, <<"current_user", "user">>,
     <<"nav_items", "navigation">> >>

\* the auto_block_mappings of _interactive_block_mapping, in their order
AutoBlockMappings ==
  << <<"content", "main_content">>, <<"sidebar", "aside_content">>,
     <<"page_scripts", "scripts">>, <<"page_styles", "styles">> >>

\* for old, new in table.items(): if old in discovered: mappings[old] = new
RECURSIVE ApplyTable(_, _, _)
ApplyTable(table, discovered, mappings) ==
  IF table = <<>> THEN mappings
  ELSE ApplyTable(Tail(table), discovered,
         IF Head(table)[1] \in discovered
           THEN DictSet(mappings, Head(table)[1], Head(table)[2])
           ELSE mappings)

\* JinjaMigrator._auto_map_variables
AutoMapVariables(mappings) == ApplyTable(AutoMappings, discovered_variables, mappings)

\* the names the operator may type at a rename prompt ("" is Enter)
VariableAnswers == {"", "login"}

\* the loop of lines 181-188 over the sorted variables, answers[var] typed
RECURSIVE RenameVariables(_, _, _)
RenameVariables(names, answers, mappings) ==
  IF names = <<>> THEN mappings
  ELSE LET var == Head(names)
           new_name == answers[var]
       IN RenameVariables(Tail(names), answers,
            IF new_name # "" /\ new_name # var
              THEN DictSet(mappings, var, new_name)
              ELSE mappings)

\* the loop of lines 229-236 over the sorted blocks; answers[block] is what the
\* operator typed, "" for Enter, which click.prompt turns into the default
RECURSIVE CustomizeBlocks(_, _, _)
CustomizeBlocks(names, answers, mappings) ==
  IF names = <<>> THEN mappings
  ELSE LET block == Head(names)
           current_mapping == DictGet(mappings, block, block)
           new_name == IF answers[block] = "" THEN current_mapping ELSE answers[block]
       IN CustomizeBlocks(Tail(names), answers,
            IF new_name # block
              THEN DictSet(mappings, block, new_name)
              ELSE mappings)

\* what the operator typed, as a dict over the sorted names (Enter left out)
RECURSIVE Typed(_, _)
Typed(names, answers) ==
  IF names = <<>> THEN <<>>
  ELSE (IF answers[Head(names)] # "" THEN << <<Head(names), answers[Head(names)]>> >> ELSE <<>>)
       \o Typed(Tail(names), answers)

\* the paths the operator may type at "Enter new path"
CustomPaths == {"custom/page.html"}

\* _interactive_template_mapping: a known mapping is returned; otherwise the
\* operator chooses 1 (same path), 2 (suggested path), 3 (custom path), each
\* stored in template_mappings, or anything else (skip: None, nothing stored)
InteractiveTemplateMapping(template_path, mappings) ==
  IF DictHas(mappings, template_path)
    THEN {[skip |-> FALSE, target |-> DictAt(mappings, template_path), mappings |-> mappings]}
    ELSE {[skip |-> FALSE, target |-> new_path,
           mappings |-> DictSet(mappings, template_path, new_path)] :
            new_path \in {template_path, SuggestTemplatePath(template_path)} \cup CustomPaths}
         \cup {[skip |-> TRUE, target |-> "", mappings |-> mappings]}

\* mkdir(parents=True, exist_ok=True) or open(..., 'w') raises: a directory
\* of the target path exists under target_dir as a regular file
WriteFails(target_path) ==
  \E i \in 1..Len(target_path) :
    Char(target_path, i) = "/" /\ DictHas(target_files, Slice(target_path, 1, i - 1))

\* A plausible slip: the error paths return True like the skip paths.
MigrateResultAlwaysTrue(returns, echo, mappings) ==
  [returns |-> TRUE,
   echo |-> echo,
   template_mappings |-> mappings,
   target_files |-> target_files,
   migration_log |-> migration_log,
   discovered_variables |-> discovered_variables,
   discovered_blocks |-> discovered_blocks]

\* what one call of migrate_template leaves behind
MigrateResult(returns, echo, mappings) ==
  [returns |-> returns,
   echo |-> echo,
   template_mappings |-> mappings,
   target_files |-> target_files,
   migration_log |-> migration_log,
   discovered_variables |-> discovered_variables,
   discovered_blocks |-> discovered_blocks]

\* A plausible slip: the log entry appended before the write is attempted.
RewriteAndWriteLogFirst(template_path, target_path, mappings) ==
  CASE ExtractStatus(template_path) = "raise" ->
         {MigrateResult(FALSE, "error_migrating", mappings)}
    [] ExtractStatus(template_path) = "TemplateError" ->
         {MigrateResult(FALSE, "error_parsing", mappings)}
    [] ExtractStatus(template_path) = "ok" ->
         {LET found == [MigrateResult(TRUE, "migrated", mappings) EXCEPT
                          !.discovered_variables = @ \cup SeqRange(template_info.variables),
                          !.discovered_blocks = @ \cup SeqRange(template_info.blocks),
                          !.migration_log =
                             Append(@, [source |-> template_path,
                                        target |-> target_path,
                                        variables |-> template_info.variables,
                                        blocks |-> template_info.blocks])]
          IN IF WriteFails(target_path)
               THEN [found EXCEPT !.returns = FALSE, !.echo = "error_migrating"]
               ELSE [found EXCEPT
                       !.target_files =
                          DictSet(@, target_path, GenerateNewTemplate(template_info, template_path))] :
            template_info \in ExtractTemplateInfo(template_path)}

\* lines 356-385 of migrate_template, the target path resolved
RewriteAndWrite(template_path, target_path, mappings) ==
  CASE ExtractStatus(template_path) = "raise" ->
         {MigrateResult(FALSE, "error_migrating", mappings)}
    [] ExtractStatus(template_path) = "TemplateError" ->
         {MigrateResult(FALSE, "error_parsing", mappings)}
    [] ExtractStatus(template_path) = "ok" ->
         {LET found == [MigrateResult(TRUE, "migrated", mappings) EXCEPT
                          !.discovered_variables = @ \cup SeqRange(template_info.variables),
                          !.discovered_blocks = @ \cup SeqRange(template_info.blocks)]
          IN IF WriteFails(target_path)
               THEN [found EXCEPT !.returns = FALSE, !.echo = "error_migrating"]
               ELSE [found EXCEPT
                       !.target_files =
                          DictSet(@, target_path, GenerateNewTemplate(template_info, template_path)),
                       !.migration_log =
                          Append(@, [source |-> template_path,
                                     target |-> target_path,
                                     variables |-> template_info.variables,
                                     blocks |-> template_info.blocks])] :
            template_info \in ExtractTemplateInfo(template_path)}

\* JinjaMigrator.migrate_template, called with template_mappings = mappings
MigrateTemplate(template_path, mappings) ==
  IF ShouldExclude(template_path)
    THEN {MigrateResult(TRUE, "skipping_excluded", mappings)}
    ELSE UNION {IF t.skip
                  THEN {MigrateResult(TRUE, "skipping", t.mappings)}
                  ELSE RewriteAndWrite(template_path, t.target, t.mappings) :
                t \in InteractiveTemplateMapping(template_path, mappings)}

----------------------------------------------------------------------------
(* main, from the loaded configuration to the summary *)

Configs ==
  {[DefaultConfig EXCEPT !.exclude_patterns = excl,
                         !.auto_preserve_blocks = apb,
                         !.auto_map_variables = amv] :
     excl \in {<<>>, SamplePatterns}, apb \in BOOLEAN, amv \in BOOLEAN}

\* the runs: with no --template the source directory holds up to MaxFiles files
\* of SourceTree and all are discovered; with --template it holds them all and
\* the list names up to MaxTemplateArgs paths, of the tree or missing
Batches ==
  {[fs |-> [p \in F |-> SourceTree[p]], template |-> <<>>] :
     F \in {G \in SUBSET SourcePaths : Cardinality(G) <= MaxFiles}}
  \cup
  {[fs |-> SourceTree, template |-> template] :
     template \in SeqsOfLen(SourcePaths \cup {"missing.html"}, 1, MaxTemplateArgs)}

\* target_dir holds a regular file named admin before the run
Init ==
  /\ pc = "discover"
  /\ config \in Configs
  /\ \E batch \in Batches, auto \in BOOLEAN, dry_run \in BOOLEAN :
       /\ fs = batch.fs
       /\ options = [auto |-> auto, dry_run |-> dry_run, template |-> batch.template]
  /\ FreshMigrator
  /\ templates_to_migrate = <<>>
  /\ idx = 0
  /\ target_files = << <<"admin", "">> >>
  /\ successful = 0
  /\ failed = 0
  /\ outcome = <<>>
  /\ operator = [variables |-> <<>>, blocks |-> <<>>]
  /\ arg = ""
  /\ ret = ""

\* lines 465-473: the batch is the --template list or the discovered templates
Discover ==
  /\ pc = "discover"
  /\ templates_to_migrate' =
       IF options.template # <<>> THEN options.template ELSE DiscoverTemplates
  /\ pc' = IF templates_to_migrate' = <<>> THEN "no_templates" ELSE "analyze"
  /\ idx' = 1
  /\ outcome' = [i \in 1..Len(templates_to_migrate') |-> ""]
  /\ UNCHANGED <<config, options, fs, discovered_variables, discovered_blocks,
                 template_mappings, variable_mappings, block_mappings,
                 migration_log, target_files, successful, failed, operator,
                 arg, ret>>

\* one iteration of the loop of analyze_all_templates (line 315)
AnalyzeStep ==
  /\ pc = "analyze"
  /\ idx <= Len(templates_to_migrate)
  /\ LET template_path == templates_to_migrate[idx]
         status == IF ShouldExclude(template_path) THEN "excluded"
                   ELSE ExtractStatus(template_path)
         text == fs[template_path].text
     IN /\ pc' = IF status = "raise" THEN "crashed"
                 ELSE IF idx = Len(templates_to_migrate) THEN "configure"
                 ELSE "analyze"
        /\ idx' = IF status = "raise" THEN idx ELSE idx + 1
        /\ discovered_variables' =
             IF status = "ok" THEN discovered_variables \cup JinjaVariables(text, 1)
             ELSE discovered_variables
        /\ discovered_blocks' =
             IF status = "ok" THEN discovered_blocks \cup SeqRange(JinjaBlocks(text))
             ELSE discovered_blocks
        /\ outcome' = IF status = "TemplateError"
                        THEN [outcome EXCEPT ![idx] = "error_parsing"]
                        ELSE outcome
  /\ UNCHANGED <<config, options, fs, templates_to_migrate, template_mappings,
                 variable_mappings, block_mappings, migration_log, target_files,
                 successful, failed, operator, arg, ret>>

\* lines 479-483, first half: _interactive_variable_mapping, or with --auto
\* _auto_map_variables.  Declining the rename is answering Enter to every name.
ResolveVariables ==
  /\ pc = "configure"
  /\ IF options.auto
       THEN /\ variable_mappings' = AutoMapVariables(variable_mappings)
            /\ operator' = operator
       ELSE IF discovered_variables = {} \/ config.auto_map_variables
         THEN /\ variable_mappings' =
                   IF config.auto_map_variables
                     THEN AutoMapVariables(variable_mappings)
                     ELSE variable_mappings
              /\ operator' = operator
         ELSE \E answers \in [discovered_variables -> VariableAnswers] :
                /\ variable_mappings' =
                     RenameVariables(Sorted(discovered_variables), answers, variable_mappings)
                /\ operator' =
                     [operator EXCEPT !.variables = Typed(Sorted(discovered_variables), answers)]
  /\ pc' = "blocks"
  /\ UNCHANGED <<config, options, fs, templates_to_migrate, idx,
                 discovered_variables, discovered_blocks, template_mappings,
                 block_mappings, migration_log, target_files, successful,
                 failed, outcome, arg, ret>>

\* lines 479-485, second half: _interactive_block_mapping, which --auto calls
\* only when auto_preserve_blocks is set.  answers[block] is "" (Enter), the
\* block's own name or "body"; declining to customize is Enter to every block.
ResolveBlocks ==
  /\ pc = "blocks"
  /\ IF (options.auto /\ ~config.auto_preserve_blocks) \/ discovered_blocks = {}
       THEN /\ block_mappings' = block_mappings
            /\ operator' = operator
       ELSE \E answers \in [discovered_blocks -> {"", "body"} \cup discovered_blocks] :
              /\ \A b \in discovered_blocks : answers[b] \in {"", "body", b}
              /\ block_mappings' =
                   CustomizeBlocks(
                     Sorted(discovered_blocks), answers,
                     IF config.auto_preserve_blocks
                       THEN ApplyTable(AutoBlockMappings, discovered_blocks, block_mappings)
                       ELSE block_mappings)
              /\ operator' =
                   [operator EXCEPT !.blocks = Typed(Sorted(discovered_blocks), answers)]
  /\ pc' = "listed"
  /\ UNCHANGED <<config, options, fs, templates_to_migrate, idx,
                 discovered_variables, discovered_blocks, template_mappings,
                 variable_mappings, migration_log, target_files, successful,
                 failed, outcome, arg, ret>>

\* lines 491-496: --dry-run lists the suggested paths and returns
DryRun ==
  /\ pc = "listed"
  /\ options.dry_run
  /\ pc' = "dry_run_done"
  /\ UNCHANGED <<config, options, fs, templates_to_migrate, idx,
                 discovered_variables, discovered_blocks, template_mappings,
                 variable_mappings, block_mappings, migration_log, target_files,
                 successful, failed, outcome, operator, arg, ret>>

\* lines 498-506: the operator confirms (--auto does not ask); counters start at 0
ConfirmMigration ==
  /\ pc = "listed"
  /\ ~options.dry_run
  /\ \E proceed \in BOOLEAN :
       /\ options.auto => proceed
       /\ pc' = IF proceed THEN "migrate" ELSE "cancelled"
  /\ idx' = 1
  /\ successful' = 0
  /\ failed' = 0
  /\ UNCHANGED <<config, options, fs, templates_to_migrate,
                 discovered_variables, discovered_blocks, template_mappings,
                 variable_mappings, block_mappings, migration_log, target_files,
                 outcome, operator, arg, ret>>

\* one iteration of the migration loop (lines 508-516); after the last one the
\* counters are echoed (lines 518-521)
MigrateStep ==
  /\ pc = "migrate"
  /\ idx <= Len(templates_to_migrate)
  /\ LET template_path == templates_to_migrate[idx]
         assigned == IF options.auto
                       THEN DictSet(template_mappings, template_path,
                                    SuggestTemplatePath(template_path))
                       ELSE template_mappings
     IN \E r \in MigrateTemplate(template_path, assigned) :
          /\ template_mappings' = r.template_mappings
          /\ target_files' = r.target_files
          /\ migration_log' = r.migration_log
          /\ discovered_variables' = r.discovered_variables
          /\ discovered_blocks' = r.discovered_blocks
          /\ outcome' = [outcome EXCEPT ![idx] = r.echo]
          /\ successful' = IF r.returns THEN successful + 1 ELSE successful
          /\ failed' = IF r.returns THEN failed ELSE failed + 1
  /\ idx' = idx + 1
  /\ pc' = IF idx = Len(templates_to_migrate) THEN "summarized" ELSE "migrate"
  /\ UNCHANGED <<config, options, fs, templates_to_migrate,
                 variable_mappings, block_mappings, operator, arg, ret>>

Next ==
  \/ Discover
  \/ AnalyzeStep
  \/ ResolveVariables
  \/ ResolveBlocks
  \/ DryRun
  \/ ConfirmMigration
  \/ MigrateStep

Spec == Init /\ [][Next]_vars

----------------------------------------------------------------------------
(* Properties of the run *)

\* the batch positions the migration loop has finished
Processed == IF pc \in {"migrate", "summarized"} THEN 1..(idx - 1) ELSE {}

\* how many finished positions echoed one of the messages of S
EchoCount(S) == Cardinality({i \in Processed : outcome[i] \in S})

ErrorEchoes == {"error_parsing", "error_migrating"}

SkipEchoes == {"skipping_excluded", "skipping"}

\* the path matches one of the configured exclusion patterns
MatchesExclusion(template_path) ==
  \E k \in 1..Len(config.exclude_patterns) :
    ReMatch(config.exclude_patterns[k], template_path)

\* the output of batch position i is on disk under the path stored for it
OutputExists(i) ==
  /\ DictHas(template_mappings, templates_to_migrate[i])
  /\ DictHas(target_files, DictAt(template_mappings, templates_to_migrate[i]))

\* three templates, only the 2nd fails to parse, the others are rewritten
PartialFailure ==
  /\ Len(templates_to_migrate) = 3
  /\ ExtractStatus(templates_to_migrate[2]) = "TemplateError"
  /\ outcome = <<"migrated", "error_parsing", "migrated">>

\* C1: in the migration loop a template whose parse, rewrite or write fails
\* adds exactly one to failed and the loop goes on: the counters always sum to
\* the number of templates processed, at the summary to the size of the batch,
\* failed counts the templates that echoed an error, every template neither
\* failed nor excluded/skipped has its output written, and with 3 templates of
\* which only the 2nd fails to parse the result is 2 successful, 1 failed, the
\* 1st and 3rd outputs on disk.
C1_BatchContinues ==
  /\ pc \in {"migrate", "summarized"} =>
       /\ successful + failed = idx - 1
       /\ failed = EchoCount(ErrorEchoes)
       /\ \A i \in Processed :
            outcome[i] \notin ErrorEchoes \cup SkipEchoes => OutputExists(i)
  /\ pc = "summarized" =>
       /\ Processed = 1..Len(templates_to_migrate)
       /\ successful + failed = Len(templates_to_migrate)
       /\ PartialFailure =>
            successful = 2 /\ failed = 1 /\ OutputExists(1) /\ OutputExists(3)

C1_Witness == pc = "summarized" /\ PartialFailure

\* the batch templates analysis and migration may take facts from
AnalysableTemplates ==
  {templates_to_migrate[i] : i \in
     {j \in 1..Len(templates_to_migrate) :
        /\ ~MatchesExclusion(templates_to_migrate[j])
        /\ templates_to_migrate[j] \in DOMAIN fs
        /\ fs[templates_to_migrate[j]].utf8}}

\* C2: a template path matching a configured exclusion pattern contributes
\* nothing to discovered_variables or discovered_blocks, no file is written
\* for it under the target root and no migration-log entry is appended for it:
\* the discovered names all come from templates that are not excluded, every
\* log entry has a source that is not excluded, and every file under the target
\* root beyond those there before the run is the target of a log entry.
C2_ExcludedUntouched ==
  /\ discovered_variables \subseteq
       UNION {JinjaVariables(fs[p].text, 1) : p \in AnalysableTemplates}
  /\ discovered_blocks \subseteq
       UNION {DeclaredBlockNames(fs[p].text) : p \in AnalysableTemplates}
  /\ \A k \in 1..Len(migration_log) : ~MatchesExclusion(migration_log[k].source)
  /\ \A name \in DictKeys(target_files) :
       \/ name = "admin"
       \/ \E k \in 1..Len(migration_log) : migration_log[k].target = name

C2_Witness ==
  /\ pc = "summarized"
  /\ \E i \in 1..Len(templates_to_migrate) :
       /\ MatchesExclusion(templates_to_migrate[i])
       /\ outcome[i] = "skipping_excluded"
  /\ Len(migration_log) >= 1
  /\ discovered_variables # {}

\* C5: manual overrides win over heuristics.  After mapping resolution every
\* name the operator typed for a variable or a block is what the lookup
\* get(key) returns, whatever the heuristic pass stored before.
C5_ManualOverridesWin ==
  pc = "listed" =>
    /\ \A k \in 1..Len(operator.variables) :
         DictGet(variable_mappings, operator.variables[k][1], operator.variables[k][1])
           = operator.variables[k][2]
    /\ \A k \in 1..Len(operator.blocks) :
         DictGet(block_mappings, operator.blocks[k][1], operator.blocks[k][1])
           = operator.blocks[k][2]

\* C6: an entry of the built-in variable table is in variable_mappings only
\* if config.auto_map_variables is true, and an entry of the built-in block
\* table is in block_mappings only if config.auto_preserve_blocks is true (the
\* operator never types a name of the built-in tables).
C6_TablesOnlyWhenEnabled ==
  /\ (\E k \in 1..Len(variable_mappings) : variable_mappings[k] \in SeqRange(AutoMappings))
       => config.auto_map_variables
  /\ (\E k \in 1..Len(block_mappings) : block_mappings[k] \in SeqRange(AutoBlockMappings))
       => config.auto_preserve_blocks

\* C9: once the configuration is loaded no error of a single template ends
\* the run: no exception leaves the analysis loop.
C9_AnalysisRecovers == pc # "crashed"

\* the batch positions whose template was rewritten and written, in order
RECURSIVE RewrittenUpTo(_)
RewrittenUpTo(n) ==
  IF n = 0 THEN <<>>
  ELSE RewrittenUpTo(n - 1) \o (IF outcome[n] = "migrated" THEN <<n>> ELSE <<>>)

Rewritten == IF pc \in {"migrate", "summarized"} THEN RewrittenUpTo(idx - 1) ELSE <<>>

\* the k-th entry is the record of the k-th rewritten template, its file written
LogMatchesRewrites ==
  /\ Len(migration_log) = Len(Rewritten)
  /\ \A k \in 1..Len(migration_log) :
       /\ migration_log[k].source = templates_to_migrate[Rewritten[k]]
       /\ DictHas(target_files, migration_log[k].target)

\* C10 as stated: exactly one entry per template counted as successful.
C10_Original ==
  /\ LogMatchesRewrites
  /\ pc \in {"migrate", "summarized"} => Len(migration_log) = successful

\* C10: migration_log is append-only and holds exactly one entry per
\* rewritten template: each entry belongs to a distinct migrate_template call
\* that wrote its output file, entries are never removed or modified, a failed
\* template contributes no entry, and the templates counted as successful are
\* those with an entry together with the excluded and the skipped ones.
C10_AppendOnlyLog ==
  /\ [](/\ LogMatchesRewrites
        /\ pc \in {"migrate", "summarized"} =>
             successful = Len(migration_log) + EchoCount(SkipEchoes))
  /\ [][/\ Len(migration_log') \in {Len(migration_log), Len(migration_log) + 1}
        /\ SubSeq(migration_log', 1, Len(migration_log)) = migration_log]_vars

C10_Witness ==
  /\ pc = "summarized"
  /\ Len(migration_log) >= 1
  /\ EchoCount(SkipEchoes) >= 1
  /\ failed >= 1

\* C11: the three mapping tables are frozen for the whole batch: from the
\* first migrate_template call of the migration loop to the summary no step
\* modifies template_mappings, variable_mappings or block_mappings.
C11_MappingsFrozen ==
  [][pc = "migrate" =>
       /\ template_mappings' = template_mappings
       /\ variable_mappings' = variable_mappings
       /\ block_mappings' = block_mappings]_vars

\* C12: each template follows Discovered -> Excluded | Discovered -> Analyzed
\* -> MappingResolved -> Rewritten | any stage -> Failed, with Failed terminal.
\* Nothing is rewritten before the analysis of all templates and the mapping
\* resolution are over, and a template that has echoed an error, in the
\* analysis or in the migration loop, keeps that outcome and is not attempted
\* by a later step.
C12_FailedIsTerminal ==
  /\ [](pc \notin {"migrate", "summarized"} =>
         migration_log = <<>> /\ DictKeys(target_files) = {"admin"})
  /\ [][\A i \in 1..Len(outcome) :
          outcome[i] \in ErrorEchoes =>
            /\ outcome'[i] = outcome[i]
            /\ ~(pc = "migrate" /\ idx = i /\ idx' = i + 1)]_vars

====
